---- MODULE Spec2Model ----
(***************************************************************************)
(* Model of src/src/pages/SettingsPage.jsx: the SettingsSection,           *)
(* LocationManager and AppearanceSettings components of the settings page  *)
(* and the Overview component whose source follows in the same file.       *)
(*                                                                         *)
(* An await splits a handler in two: the action named after the handler    *)
(* runs it up to the await, and the ...Resolved / ...Rejected actions run  *)
(* the rest of the try block, or the catch block, with the finally block.  *)
(* The values a handler closed over (the editing id, the record id) travel *)
(* with the call.                                                          *)
(*                                                                         *)
(* handleGetLocation, which only prefills the form from the geolocation    *)
(* API, is left out.  A toast is kept as the event recorded in last.       *)
(* Spec follows one mounted LocationManager.                               *)
(*                                                                         *)
(* Six specifications share this module:                                   *)
(*   Spec          LocationManager (list, form, editing id, remote calls)  *)
(*   ReliableSpec  LocationManager when no answer of the store is lost     *)
(*   ThemeSpec  SettingsSection and AppearanceSettings                     *)
(*   OverSpec   Overview (user prop, the three fetches, stats)             *)
(*   StatSpec   fetchStatistics over a wide range of students and courses  *)
(*   DaySpec    fetchStatistics over a wide range of attendance records    *)
(***************************************************************************)
EXTENDS Integers, Sequences, FiniteSets, TLC

VARIABLES
    \* ---- LocationManager (lines 44-172) ----
    locations,          \* useState([])                         line 45
    loading,            \* useState(true)                       line 46
    error,              \* useState(null)                       line 47
    formData,           \* useState({Latitude:'',Longitude:''}) line 48
    editingLocationId,  \* useState(null)                       line 49
    fetchState,         \* the fetchLocations() promise of the mount effect
    pending,            \* the addLocation/updateLocation/deleteLocation calls in flight
    made,               \* number of such calls made so far; a call's number is its toast id
    remote,             \* the remote store behind LocationService
    nextId,             \* number of identifiers the remote store has handed out
    last,               \* the handler or continuation that ran last
    \* ---- AppearanceSettings (lines 175-226) ----
    theme,              \* useState(() => localStorage.getItem('theme') || 'system')
    lsTheme,            \* localStorage key 'theme'
    rootDark,           \* document.documentElement.classList contains 'dark'
    osDark,             \* matchMedia('(prefers-color-scheme: dark)').matches
    isOpen,             \* useState(defaultOpen) of the two SettingsSections  line 9
    lastTheme,          \* the AppearanceSettings event that ran last, with the state before it
    \* ---- Overview (lines 315-455) ----
    user,               \* the user prop
    stats,              \* useState(null)                       line 316
    ovLoading,          \* useState(true)                       line 317
    ovError,            \* useState(null)                       line 318
    attempts,           \* every fetchStatistics() invocation, in order
    statsFrom,          \* the invocation whose setStats(...) wrote stats, 0 if none
    now                 \* the clock read by new Date()

locVars   == <<locations, loading, error, formData, editingLocationId,
               fetchState, pending, made, remote, nextId, last>>
themeVars == <<theme, lsTheme, rootDark, osDark, isOpen, lastTheme>>
overVars  == <<user, stats, ovLoading, ovError, attempts, statsFrom, now>>
vars      == <<locVars, themeVars, overVars>>

----------------------------------------------------------------------------
(* Bounds of the model *)

MaxCalls    == 2    \* remote mutation calls made in one run
MaxAttempts == 2    \* fetchStatistics invocations in one run
MaxTime     == 3    \* last instant of the clock
DayLen      == 2    \* clock instants per calendar day
MaxStudents == 2    \* students in a wide response
MaxRecords  == 3    \* attendance records in a wide response
FracDigits  == 2    \* decimal places a coordinate carries

----------------------------------------------------------------------------
(* JavaScript values *)

Null == "null"

\* `if (x)` on an identifier or an error message: null and '' are falsy
Truthy(x) == x \notin {Null, ""}

Digits == <<"0", "1", "2", "3", "4", "5", "6", "7", "8", "9">>
IsDigit(c) == \E i \in 1..10 : Digits[i] = c
DigitVal(c) == (CHOOSE i \in 1..10 : Digits[i] = c) - 1


RECURSIVE Pow10(_)
Pow10(n) == IF n = 0 THEN 1 ELSE 10 * Pow10(n - 1)

\* Numbers are held as integers, in units of 10^-FracDigits
Unit == Pow10(FracDigits)

\* the number whole.hh
Num(whole, hundredths) == whole * Unit + hundredths * Pow10(FracDigits - 2)

\* the result of parseFloat on a string with no leading number
NaN == "NaN"

RECURSIVE DigitRun(_, _)
\* number of consecutive digit characters of s from position i
DigitRun(s, i) ==
    IF i <= Len(s) /\ IsDigit(s[i]) THEN 1 + DigitRun(s, i + 1) ELSE 0

RECURSIVE DecVal(_, _, _)
\* value of the n decimal digits of s starting at position i
DecVal(s, i, n) ==
    IF n = 0 THEN 0 ELSE DecVal(s, i, n - 1) * 10 + DigitVal(s[i + n - 1])

Min(a, b) == IF a < b THEN a ELSE b

\* parseFloat over the alphabet of a number input: sign, digits, point.
\* Parsing stops at the first character that cannot continue the number.
parseFloat(s) ==
    LET signed == Len(s) >= 1 /\ s[1] \in {"-", "+"}
        neg    == Len(s) >= 1 /\ s[1] = "-"
        start  == IF signed THEN 2 ELSE 1
        ni     == DigitRun(s, start)
        dot    == start + ni <= Len(s) /\ s[start + ni] = "."
        nf     == IF dot THEN DigitRun(s, start + ni + 1) ELSE 0
        kf     == Min(nf, FracDigits)
        ip     == DecVal(s, start, ni)
        fp     == DecVal(s, start + ni + 1, kf) * Pow10(FracDigits - kf)
        mag    == ip * Unit + fp
    IN  IF ni = 0 /\ nf = 0 THEN NaN
        ELSE IF neg THEN 0 - mag ELSE mag

RECURSIVE NatChars(_)
\* decimal digits of a natural number, no leading zeros
NatChars(n) ==
    IF n < 10 THEN <<Digits[n + 1]>>
    ELSE Append(NatChars(n \div 10), Digits[(n % 10) + 1])

RECURSIVE FracChars(_, _)
\* the k decimal digits of f, leading zeros kept
FracChars(f, k) ==
    IF k = 0 THEN <<>>
    ELSE Append(FracChars(f \div 10, k - 1), Digits[(f % 10) + 1])

RECURSIVE StripZeros(_)
StripZeros(s) ==
    IF Len(s) > 0 /\ s[Len(s)] = "0" THEN StripZeros(SubSeq(s, 1, Len(s) - 1)) ELSE s

Abs(n) == IF n < 0 THEN 0 - n ELSE n

\* Number.prototype.toString(): shortest decimal form, no trailing zeros
toString(n) ==
    LET m    == Abs(n)
        sign == IF n < 0 THEN <<"-">> ELSE <<>>
        frac == StripZeros(FracChars(m % Unit, FracDigits))
    IN  sign \o NatChars(m \div Unit) \o (IF frac = <<>> THEN <<>> ELSE <<".">> \o frac)

----------------------------------------------------------------------------
(* Overview: values *)

\* useState(null) for stats
NoStats ==
    [isNull |-> TRUE, totalStudents |-> 0, totalCourses |-> 0,
     todaysAttendance |-> [present |-> 0, absent |-> 0, total |-> 0],
     courseDistribution |-> <<>>, statusDistribution |-> <<>>]

----------------------------------------------------------------------------
(* SettingsPage *)

\* the two sections of SettingsPage (lines 237-242)
Sections == {"Appearance", "Location Management"}

----------------------------------------------------------------------------
(* LocationManager: values *)

EmptyForm == [Latitude |-> <<>>, Longitude |-> <<>>]

NoRecord == [id |-> Null, Latitude |-> 0, Longitude |-> 0]

\* identifiers of the remote store, in the order it hands them out
IdNames == <<"L1", "L2", "L3", "L4", "L5", "L6", "L7">>

LocA == [id |-> "L1", Latitude |-> Num(12, 34), Longitude |-> Num(56, 78)]
LocB == [id |-> "L2", Latitude |-> Num(12, 34), Longitude |-> Num(56, 78)]

\* contents of the remote store when the component mounts
InitialStores == {<<>>, <<LocA, LocB>>}

\* what the user types into the two number inputs
Typed == {[name |-> "Latitude", value |-> <<"7", ".", "5", "0">>],
          [name |-> "Longitude", value |-> <<"5", "6", ".", "7", "8">>]}

FetchError == "Failed to fetch locations: "

NoEvent == [op |-> "mount", id |-> Null]
Event(op, id) == [op |-> op, id |-> id]

\* the early returns before the form and the rows are rendered (lines 140-141)
FormAvailable == ~loading /\ ~Truthy(error)

\* both inputs carry the `required` attribute (lines 148-149)
Required(form) == form.Latitude # <<>> /\ form.Longitude # <<>>

----------------------------------------------------------------------------
(* LocationManager: what each handler computes *)

\* setLocations(locationResponse || [])
LoadResult(locationResponse) ==
    IF locationResponse.isNull THEN <<>> ELSE locationResponse.items

\* const locationData = { Latitude: parseFloat(...), Longitude: parseFloat(...) }
LocationData(form) ==
    [Latitude |-> parseFloat(form.Latitude), Longitude |-> parseFloat(form.Longitude)]

\* editingLocationId ? updateLocation(...) : addLocation(...)
SubmitFunction(editingId) ==
    IF Truthy(editingId) THEN "updateLocation" ELSE "addLocation"

\* variant: the new record is put last
PrependNew_last(prev, newLocation) == Append(prev, newLocation)

\* prev => [newLocation, ...prev]
PrependNew(prev, newLocation) == <<newLocation>> \o prev

\* variant: every record is replaced by the answer
ReplaceUpdated_all(prev, id, updated) == [i \in 1..Len(prev) |-> updated]

\* prev => prev.map(loc => loc.$id === editingLocationId ? updated : loc)
ReplaceUpdated(prev, id, updated) ==
    [i \in 1..Len(prev) |-> IF prev[i].id = id THEN updated ELSE prev[i]]

\* variant: the row is dropped by position, the first record goes
RemoveDeleted_first(prev, locationId) == SubSeq(prev, 2, Len(prev))

\* prev => prev.filter(loc => loc.$id !== locationId)
RemoveDeleted(prev, locationId) ==
    SelectSeq(prev, LAMBDA loc : loc.id # locationId)

\* { Latitude: location.Latitude.toString(), Longitude: location.Longitude.toString() }
EditForm(location) ==
    [Latitude |-> toString(location.Latitude), Longitude |-> toString(location.Longitude)]

\* a call as it leaves the component: toast.loading(...) and the service function
NewCall(tid, fn, id, data) ==
    [tid |-> tid, fn |-> fn, id |-> id, data |-> data, st |-> "sent", ret |-> NoRecord]

----------------------------------------------------------------------------
(* The remote store behind LocationService *)

StoreHas(id) == \E i \in 1..Len(remote) : remote[i].id = id

\* what fetchLocations() may resolve with
FetchResponses ==
    {[isNull |-> FALSE, items |-> remote]}
        \cup (IF remote = <<>> THEN {[isNull |-> TRUE, items |-> <<>>]} ELSE {})

Answered(c, rec) == [c EXCEPT !.st = "applied", !.ret = rec]

\* The store carries out call c and prepares its answer
RemoteApply(c) ==
    /\ c \in pending
    /\ c.st = "sent"
    /\ \/ /\ c.fn = "addLocation"
          /\ LET rec == [id |-> IdNames[nextId + 1],
                         Latitude |-> c.data.Latitude, Longitude |-> c.data.Longitude]
             IN  /\ remote' = Append(remote, rec)
                 /\ nextId' = nextId + 1
                 /\ pending' = (pending \ {c}) \cup {Answered(c, rec)}
       \/ /\ c.fn = "updateLocation"
          /\ StoreHas(c.id)
          /\ LET rec == [id |-> c.id,
                         Latitude |-> c.data.Latitude, Longitude |-> c.data.Longitude]
             IN  /\ remote' = ReplaceUpdated(remote, c.id, rec)
                 /\ pending' = (pending \ {c}) \cup {Answered(c, rec)}
          /\ UNCHANGED nextId
       \/ /\ c.fn = "deleteLocation"
          /\ StoreHas(c.id)
          /\ remote' = RemoveDeleted(remote, c.id)
          /\ pending' = (pending \ {c}) \cup {Answered(c, NoRecord)}
          /\ UNCHANGED nextId
    /\ UNCHANGED <<locations, loading, error, formData, editingLocationId, fetchState, made,
                   last>>
    /\ UNCHANGED <<themeVars, overVars>>

----------------------------------------------------------------------------
(* LocationManager: the mount effect *)

LoadResolved(locationResponse) ==
    /\ fetchState.st = "pending"
    /\ locations' = LoadResult(locationResponse)
    /\ loading' = FALSE
    /\ fetchState' = [st |-> "resolved", resp |-> locationResponse]
    /\ last' = Event("load-resolved", Null)
    /\ UNCHANGED <<error, formData, editingLocationId, pending, made, remote, nextId>>
    /\ UNCHANGED <<themeVars, overVars>>

\* variant: the catch block without the finally block
LoadRejected_noFinally ==
    /\ fetchState.st = "pending"
    /\ error' = FetchError
    /\ fetchState' = [fetchState EXCEPT !.st = "rejected"]
    /\ last' = Event("load-rejected", Null)
    /\ UNCHANGED <<locations, loading, formData, editingLocationId, pending, made, remote,
                   nextId>>
    /\ UNCHANGED <<themeVars, overVars>>

LoadRejected ==
    /\ fetchState.st = "pending"
    /\ error' = FetchError
    /\ loading' = FALSE
    /\ fetchState' = [fetchState EXCEPT !.st = "rejected"]
    /\ last' = Event("load-rejected", Null)
    /\ UNCHANGED <<locations, formData, editingLocationId, pending, made, remote, nextId>>
    /\ UNCHANGED <<themeVars, overVars>>

(* LocationManager: the form *)

handleInputChange(name, value) ==
    /\ FormAvailable
    /\ formData[name] # value
    /\ formData' = [formData EXCEPT ![name] = value]
    /\ last' = Event("input", Null)
    /\ UNCHANGED <<locations, loading, error, editingLocationId, fetchState, pending,
                   made, remote, nextId>>
    /\ UNCHANGED <<themeVars, overVars>>

handleEdit(location) ==
    /\ FormAvailable
    /\ editingLocationId' = location.id
    /\ formData' = EditForm(location)
    /\ last' = Event("edit", location.id)
    /\ UNCHANGED <<locations, loading, error, fetchState, pending, made, remote, nextId>>
    /\ UNCHANGED <<themeVars, overVars>>

\* the Cancel button is rendered only while an editing id is held (line 154)
handleCancelEdit ==
    /\ FormAvailable
    /\ Truthy(editingLocationId)
    /\ editingLocationId' = Null
    /\ formData' = EmptyForm
    /\ last' = Event("cancel", Null)
    /\ UNCHANGED <<locations, loading, error, fetchState, pending, made, remote, nextId>>
    /\ UNCHANGED <<themeVars, overVars>>

(* LocationManager: handleSubmit up to its await, and its two continuations *)

handleSubmit ==
    /\ FormAvailable
    /\ Required(formData)
    /\ made < MaxCalls
    /\ made' = made + 1
    /\ pending' = pending \cup {NewCall(made + 1, SubmitFunction(editingLocationId),
                                        editingLocationId, LocationData(formData))}
    /\ last' = Event("submit", editingLocationId)
    /\ UNCHANGED <<locations, loading, error, formData, editingLocationId, fetchState,
                   remote, nextId>>
    /\ UNCHANGED <<themeVars, overVars>>

SubmitResolved(c) ==
    /\ c \in pending
    /\ c.fn \in {"addLocation", "updateLocation"}
    /\ c.st = "applied"
    /\ locations' = IF Truthy(c.id)
                    THEN ReplaceUpdated(locations, c.id, c.ret)
                    ELSE PrependNew(locations, c.ret)
    /\ formData' = EmptyForm
    /\ editingLocationId' = Null
    /\ pending' = pending \ {c}
    /\ last' = Event("resolved", c.id)
    /\ UNCHANGED <<loading, error, fetchState, made, remote, nextId>>
    /\ UNCHANGED <<themeVars, overVars>>

\* variant: the catch block clears the form as the end of the try block does
SubmitRejected_reset(c) ==
    /\ c \in pending
    /\ c.fn \in {"addLocation", "updateLocation"}
    /\ pending' = pending \ {c}
    /\ formData' = EmptyForm
    /\ editingLocationId' = Null
    /\ last' = Event("rejected", c.id)
    /\ UNCHANGED <<locations, loading, error, fetchState, made, remote, nextId>>
    /\ UNCHANGED <<themeVars, overVars>>

SubmitRejected(c) ==
    /\ c \in pending
    /\ c.fn \in {"addLocation", "updateLocation"}
    /\ pending' = pending \ {c}
    /\ last' = Event("rejected", c.id)
    /\ UNCHANGED <<locations, loading, error, formData, editingLocationId, fetchState,
                   made, remote, nextId>>
    /\ UNCHANGED <<themeVars, overVars>>

(* LocationManager: handleDelete up to its await, and its two continuations *)

\* variant: the row is removed at the click, before the remote call settles
handleDelete_optimistic(locationId, confirmed) ==
    /\ FormAvailable
    /\ IF confirmed
       THEN /\ made < MaxCalls
            /\ made' = made + 1
            /\ pending' = pending \cup {NewCall(made + 1, "deleteLocation", locationId,
                                                [Latitude |-> 0, Longitude |-> 0])}
            /\ locations' = RemoveDeleted(locations, locationId)
            /\ last' = Event("delete", locationId)
       ELSE /\ last' = Event("declined", locationId)
            /\ UNCHANGED <<pending, made, locations>>
    /\ UNCHANGED <<loading, error, formData, editingLocationId, fetchState, remote, nextId>>
    /\ UNCHANGED <<themeVars, overVars>>

handleDelete(locationId, confirmed) ==
    /\ FormAvailable
    /\ IF confirmed
       THEN /\ made < MaxCalls
            /\ made' = made + 1
            /\ pending' = pending \cup {NewCall(made + 1, "deleteLocation", locationId,
                                                [Latitude |-> 0, Longitude |-> 0])}
            /\ last' = Event("delete", locationId)
       ELSE /\ last' = Event("declined", locationId)
            /\ UNCHANGED <<pending, made>>
    /\ UNCHANGED <<locations, loading, error, formData, editingLocationId, fetchState,
                   remote, nextId>>
    /\ UNCHANGED <<themeVars, overVars>>

\* variant: removing the record that is being edited also leaves the edit,
\* as handleCancelEdit does
DeleteResolved_cancelEdit(c) ==
    /\ c \in pending
    /\ c.fn = "deleteLocation"
    /\ c.st = "applied"
    /\ locations' = RemoveDeleted(locations, c.id)
    /\ editingLocationId' = IF editingLocationId = c.id THEN Null ELSE editingLocationId
    /\ formData' = IF editingLocationId = c.id THEN EmptyForm ELSE formData
    /\ pending' = pending \ {c}
    /\ last' = Event("resolved", c.id)
    /\ UNCHANGED <<loading, error, fetchState, made, remote, nextId>>
    /\ UNCHANGED <<themeVars, overVars>>

DeleteResolved(c) ==
    /\ c \in pending
    /\ c.fn = "deleteLocation"
    /\ c.st = "applied"
    /\ locations' = RemoveDeleted(locations, c.id)
    /\ pending' = pending \ {c}
    /\ last' = Event("resolved", c.id)
    /\ UNCHANGED <<loading, error, formData, editingLocationId, fetchState, made, remote,
                   nextId>>
    /\ UNCHANGED <<themeVars, overVars>>

DeleteRejected(c) ==
    /\ c \in pending
    /\ c.fn = "deleteLocation"
    /\ pending' = pending \ {c}
    /\ last' = Event("rejected", c.id)
    /\ UNCHANGED <<locations, loading, error, formData, editingLocationId, fetchState,
                   made, remote, nextId>>
    /\ UNCHANGED <<themeVars, overVars>>

----------------------------------------------------------------------------
(* Initial states *)

LocInit ==
    /\ locations = <<>>
    /\ loading = TRUE
    /\ error = Null
    /\ formData = EmptyForm
    /\ editingLocationId = Null
    /\ remote \in InitialStores
    /\ nextId = Len(remote)
    /\ fetchState = [st |-> "pending", resp |-> [isNull |-> TRUE, items |-> <<>>]]
    /\ pending = {}
    /\ made = 0
    /\ last = NoEvent

ThemeIdle ==
    /\ theme = "system"
    /\ lsTheme = Null
    /\ rootDark = FALSE
    /\ osDark = FALSE
    /\ isOpen = [title \in Sections |-> TRUE]
    /\ lastTheme = [op |-> "none", arg |-> "none", dark |-> FALSE, stored |-> Null,
                    shown |-> "system", listening |-> FALSE]

OverIdle ==
    /\ user = Null
    /\ stats = NoStats
    /\ ovLoading = TRUE
    /\ ovError = Null
    /\ attempts = <<>>
    /\ statsFrom = 0
    /\ now = 0

Init == LocInit /\ ThemeIdle /\ OverIdle

Next ==
    \/ \E r \in FetchResponses : LoadResolved(r)
    \/ LoadRejected
    \/ \E e \in Typed : handleInputChange(e.name, e.value)
    \/ \E i \in 1..Len(locations) : handleEdit(locations[i])
    \/ handleCancelEdit
    \/ handleSubmit
    \/ \E c \in pending : SubmitResolved(c)
    \/ \E c \in pending : SubmitRejected(c)
    \/ \E i \in 1..Len(locations), confirmed \in BOOLEAN :
           handleDelete(locations[i].id, confirmed)
    \/ \E c \in pending : DeleteResolved(c)
    \/ \E c \in pending : DeleteRejected(c)
    \/ \E c \in pending : RemoteApply(c)

Spec == Init /\ [][Next]_vars

\* The calls the store has not carried out: a request that fails on its way out,
\* or that the store refuses
Unanswered == {c \in pending : c.st = "sent"}

\* The same component on a network that loses no answer: a call is rejected
\* only while the store has not carried it out
ReliableNext ==
    \/ \E r \in FetchResponses : LoadResolved(r)
    \/ LoadRejected
    \/ \E e \in Typed : handleInputChange(e.name, e.value)
    \/ \E i \in 1..Len(locations) : handleEdit(locations[i])
    \/ handleCancelEdit
    \/ handleSubmit
    \/ \E c \in pending : SubmitResolved(c)
    \/ \E c \in Unanswered : SubmitRejected(c)
    \/ \E i \in 1..Len(locations), confirmed \in BOOLEAN :
           handleDelete(locations[i].id, confirmed)
    \/ \E c \in pending : DeleteResolved(c)
    \/ \E c \in Unanswered : DeleteRejected(c)
    \/ \E c \in pending : RemoteApply(c)

ReliableSpec == Init /\ [][ReliableNext]_vars

----------------------------------------------------------------------------
(* AppearanceSettings *)

Themes == {"light", "dark", "system"}

\* AppearanceSettings is rendered only inside an open section (line 26)
mounted == isOpen["Appearance"]

\* useState(() => localStorage.getItem('theme') || 'system')
InitialTheme(stored) == IF Truthy(stored) THEN stored ELSE "system"

\* localStorage.removeItem('theme') for "system", localStorage.setItem('theme', newTheme) else
StoredAfter(newTheme) == IF newTheme = "system" THEN Null ELSE newTheme

\* variant: "system" is handled like "light"
DarkAfter_noSystem(newTheme, matches) == newTheme = "dark"

\* root.classList.toggle('dark', isDark) for "system", toggle('dark', newTheme === 'dark') else
DarkAfter(newTheme, matches) ==
    IF newTheme = "system" THEN matches ELSE newTheme = "dark"

\* variant: the listener follows the system whatever is stored
ListenerDark_always(stored, dark, matches) == matches

\* handleChange: if (!localStorage.getItem('theme')) classList.toggle('dark', mediaQuery.matches)
ListenerDark(stored, dark, matches) ==
    IF ~Truthy(stored) THEN matches ELSE dark

ThemeEvent(op, arg) ==
    [op |-> op, arg |-> arg, dark |-> rootDark, stored |-> lsTheme, shown |-> theme,
     listening |-> mounted]

handleThemeChange(newTheme) ==
    /\ mounted
    /\ theme' = newTheme
    /\ lsTheme' = StoredAfter(newTheme)
    /\ rootDark' = DarkAfter(newTheme, osDark)
    /\ lastTheme' = ThemeEvent("select", newTheme)
    /\ UNCHANGED <<osDark, isOpen>>
    /\ UNCHANGED <<locVars, overVars>>

\* the system colour scheme changes; the 'change' listener runs if it is registered
SchemeChange ==
    /\ osDark' = ~osDark
    /\ rootDark' = IF mounted THEN ListenerDark(lsTheme, rootDark, osDark') ELSE rootDark
    /\ lastTheme' = ThemeEvent("scheme", "none")
    /\ UNCHANGED <<theme, lsTheme, isOpen>>
    /\ UNCHANGED <<locVars, overVars>>

\* SettingsSection: onClick={() => setIsOpen(!isOpen)}.  Opening the Appearance section
\* mounts AppearanceSettings (fresh state, the listener is registered); closing it
\* unmounts the component (the effect's cleanup removes the listener).
SectionToggle(title) ==
    /\ isOpen' = [isOpen EXCEPT ![title] = ~isOpen[title]]
    /\ theme' = IF title = "Appearance" /\ ~isOpen[title] THEN InitialTheme(lsTheme) ELSE theme
    /\ lastTheme' = ThemeEvent("toggle", title)
    /\ UNCHANGED <<lsTheme, rootDark, osDark>>
    /\ UNCHANGED <<locVars, overVars>>

LocIdle ==
    /\ locations = <<>>
    /\ loading = TRUE
    /\ error = Null
    /\ formData = EmptyForm
    /\ editingLocationId = Null
    /\ remote = <<>>
    /\ nextId = 0
    /\ fetchState = [st |-> "pending", resp |-> [isNull |-> TRUE, items |-> <<>>]]
    /\ pending = {}
    /\ made = 0
    /\ last = NoEvent

ThemeInit ==
    /\ lsTheme \in {Null, "light", "dark"}
    /\ theme = InitialTheme(lsTheme)
    /\ rootDark \in BOOLEAN
    /\ osDark \in BOOLEAN
    /\ isOpen = [title \in Sections |-> title = "Appearance"]
    /\ lastTheme = [op |-> "mount", arg |-> "none", dark |-> rootDark, stored |-> lsTheme,
                    shown |-> "system", listening |-> FALSE]

ThemeNext ==
    \/ \E newTheme \in Themes : handleThemeChange(newTheme)
    \/ SchemeChange
    \/ \E title \in Sections : SectionToggle(title)

ThemePageInit == ThemeInit /\ LocIdle /\ OverIdle

ThemeSpec == ThemePageInit /\ [][ThemeNext]_vars

----------------------------------------------------------------------------
(* Overview *)

LoadError == "Failed to load dashboard data. Please try refreshing the page."

\* variant: the instants are compared, not their days
toDateString_instant(t) == t

\* new Date(t).toDateString(): the calendar day of the instant
toDateString(t) == t \div DayLen

\* attendance.filter(r => new Date(r.Marked_at).toDateString() === today)
TodaysRecords(attendance, today) ==
    SelectSeq(attendance, LAMBDA r : toDateString(r.Marked_at) = today)

\* { present: ..., absent: ..., total: todaysRecords.length }
TodaysAttendance(todaysRecords) ==
    [present |-> Len(SelectSeq(todaysRecords, LAMBDA r : r.Status = "Present")),
     absent  |-> Len(SelectSeq(todaysRecords, LAMBDA r : r.Status = "Absent")),
     total   |-> Len(todaysRecords)]

\* variant: the courses without students are kept
CourseDistribution_unfiltered(courses, students) ==
    [i \in 1..Len(courses) |->
        [name  |-> courses[i].Programme,
         value |-> Len(SelectSeq(students, LAMBDA st : st.Course = courses[i].id))]]

\* courses.map(course => ({name, value: students.filter(...).length})).filter(c => c.value > 0)
CourseDistribution(courses, students) ==
    SelectSeq([i \in 1..Len(courses) |->
                  [name  |-> courses[i].Programme,
                   value |-> Len(SelectSeq(students, LAMBDA st : st.Course = courses[i].id))]],
              LAMBDA c : c.value > 0)

\* acc[s.Status] = (acc[s.Status] || 0) + 1, on the entries of acc in insertion order
CountStatus(acc, status) ==
    IF \E i \in 1..Len(acc) : acc[i].name = status
    THEN [i \in 1..Len(acc) |->
             IF acc[i].name = status THEN [acc[i] EXCEPT !.value = @ + 1] ELSE acc[i]]
    ELSE Append(acc, [name |-> status, value |-> 1])

RECURSIVE ReduceStatus(_, _)
\* students.reduce(..., {}) over the first n students
ReduceStatus(students, n) ==
    IF n = 0 THEN <<>> ELSE CountStatus(ReduceStatus(students, n - 1), students[n].Status)

\* Object.entries(students.reduce(...)).map(([name, value]) => ({ name, value }))
StatusDistribution(students) == ReduceStatus(students, Len(students))

\* studentsResponse.documents || [],  coursesResponse || [],  attendanceResponse || []
ListOf(response) == IF response.kind = "list" THEN response.items ELSE <<>>

\* studentsResponse.documents throws when getStudents() resolved with null
Throws(studentsResponse) == studentsResponse.kind = "null"

\* the object passed to setStats
Statistics(students, courses, attendance, today) ==
    [isNull |-> FALSE,
     totalStudents |-> Len(students),
     totalCourses |-> Len(courses),
     todaysAttendance |-> TodaysAttendance(TodaysRecords(attendance, today)),
     courseDistribution |-> CourseDistribution(courses, students),
     statusDistribution |-> StatusDistribution(students)]

Fetches == {"students", "courses", "attendance"}

PendingFetch == [st |-> "pending", resp |-> [kind |-> "null", items |-> <<>>]]

\* Promise.all([getStudents(), fetchCourses(), getAttendance()]) as it is issued
NewAttempt ==
    [students |-> PendingFetch, courses |-> PendingFetch, attendance |-> PendingFetch,
     outcome |-> "pending", at |-> 0]

\* the user prop arrives or changes: useEffect(() => { if (user) fetchStatistics() }, [user])
ReceiveUser(u) ==
    /\ u # user
    /\ user' = u
    /\ IF Truthy(u)
       THEN /\ Len(attempts) < MaxAttempts
            /\ attempts' = Append(attempts, NewAttempt)
            /\ ovLoading' = TRUE
       ELSE UNCHANGED <<attempts, ovLoading>>
    /\ UNCHANGED <<stats, ovError, statsFrom, now>>
    /\ UNCHANGED <<locVars, themeVars>>

\* One of the three fetches of invocation k resolves.  When it is the last of the three,
\* Promise.all resolves and the rest of the try block runs, then the finally block.
FetchResolved(k, which, response) ==
    /\ attempts[k][which].st = "pending"
    /\ LET a == [attempts[k] EXCEPT ![which] = [st |-> "resolved", resp |-> response]]
           all == \A f \in Fetches : a[f].st = "resolved"
       IN  IF a.outcome = "pending" /\ all
           THEN IF Throws(a.students.resp)
                THEN /\ ovError' = LoadError
                     /\ ovLoading' = FALSE
                     /\ attempts' = [attempts EXCEPT ![k] = [a EXCEPT !.outcome = "error",
                                                                      !.at = now]]
                     /\ UNCHANGED <<stats, statsFrom>>
                ELSE /\ stats' = Statistics(ListOf(a.students.resp), ListOf(a.courses.resp),
                                            ListOf(a.attendance.resp), toDateString(now))
                     /\ statsFrom' = k
                     /\ ovLoading' = FALSE
                     /\ attempts' = [attempts EXCEPT ![k] = [a EXCEPT !.outcome = "ok",
                                                                      !.at = now]]
                     /\ UNCHANGED ovError
           ELSE /\ attempts' = [attempts EXCEPT ![k] = a]
                /\ UNCHANGED <<stats, statsFrom, ovLoading, ovError>>
    /\ UNCHANGED <<user, now>>
    /\ UNCHANGED <<locVars, themeVars>>

\* variant: the catch block does not call setError
FetchRejected_silent(k, which) ==
    /\ attempts[k][which].st = "pending"
    /\ LET a == [attempts[k] EXCEPT ![which].st = "rejected"]
       IN  IF a.outcome = "pending"
           THEN /\ ovLoading' = FALSE
                /\ attempts' = [attempts EXCEPT ![k] = [a EXCEPT !.outcome = "error",
                                                                 !.at = now]]
                /\ UNCHANGED ovError
           ELSE /\ attempts' = [attempts EXCEPT ![k] = a]
                /\ UNCHANGED <<ovLoading, ovError>>
    /\ UNCHANGED <<user, stats, statsFrom, now>>
    /\ UNCHANGED <<locVars, themeVars>>

\* One of the three fetches of invocation k is rejected.  The first rejection rejects
\* Promise.all: the catch block runs, then the finally block.
FetchRejected(k, which) ==
    /\ attempts[k][which].st = "pending"
    /\ LET a == [attempts[k] EXCEPT ![which].st = "rejected"]
       IN  IF a.outcome = "pending"
           THEN /\ ovError' = LoadError
                /\ ovLoading' = FALSE
                /\ attempts' = [attempts EXCEPT ![k] = [a EXCEPT !.outcome = "error",
                                                                 !.at = now]]
           ELSE /\ attempts' = [attempts EXCEPT ![k] = a]
                /\ UNCHANGED <<ovLoading, ovError>>
    /\ UNCHANGED <<user, stats, statsFrom, now>>
    /\ UNCHANGED <<locVars, themeVars>>

\* time passes
Tick ==
    /\ now < MaxTime
    /\ now' = now + 1
    /\ UNCHANGED <<user, stats, ovLoading, ovError, attempts, statsFrom>>
    /\ UNCHANGED <<locVars, themeVars>>

(* Responses of the three services *)

Users == {Null, "admin"}

CourseA == [id |-> "C1", Programme |-> "ADCA"]
CourseB == [id |-> "C2", Programme |-> "DCA"]

List(items) == [kind |-> "list", items |-> items]
NullResponse == [kind |-> "null", items |-> <<>>]
NoDocuments == [kind |-> "nodocs", items |-> <<>>]

\* all lists over a set, up to a length
ListsUpTo(S, n) == UNION {[1..m -> S] : m \in 0..n}

SmallResponses(which) ==
    CASE which = "students" ->
            {NullResponse, List(<<[Status |-> "Active", Course |-> "C1"]>>)}
      [] which = "courses" -> {List(<<CourseA>>)}
      [] which = "attendance" -> {List(<<[Status |-> "Present", Marked_at |-> 1],
                                        [Status |-> "Absent", Marked_at |-> DayLen]>>)}

StudentRecords == [Status : {"Active", "Inactive"}, Course : {"C1", "C2", Null}]
AttendanceRecords == [Status : {"Present", "Absent", "Late"},
                      Marked_at : {DayLen - 1, DayLen}]

StudentResponses ==
    {NoDocuments} \cup {List(l) : l \in ListsUpTo(StudentRecords, MaxStudents)}
AttendanceLists ==
    {NullResponse} \cup {List(l) : l \in ListsUpTo(AttendanceRecords, MaxRecords)}

\* students and courses over a wide range, one attendance list
EnrolmentResponses(which) ==
    CASE which = "students" -> StudentResponses
      [] which = "courses" ->
            {NullResponse, List(<<CourseA>>), List(<<CourseA, CourseB>>),
             List(<<CourseB, [id |-> "C3", Programme |-> "ADCA"]>>)}
      [] which = "attendance" -> {List(<<[Status |-> "Present", Marked_at |-> 1]>>)}

\* attendance over a wide range, one list of students and of courses
AttendanceResponses(which) ==
    CASE which = "students" -> {List(<<[Status |-> "Active", Course |-> "C1"]>>)}
      [] which = "courses" -> {List(<<CourseA>>)}
      [] which = "attendance" -> AttendanceLists

OverInit ==
    /\ user = Null
    /\ stats = NoStats
    /\ ovLoading = TRUE
    /\ ovError = Null
    /\ attempts = <<>>
    /\ statsFrom = 0
    /\ now = 0

\* the component is mounted with a user: the effect has issued the three fetches
FetchingInit ==
    /\ user = "admin"
    /\ stats = NoStats
    /\ ovLoading = TRUE
    /\ ovError = Null
    /\ attempts = <<NewAttempt>>
    /\ statsFrom = 0
    /\ now \in 0..MaxTime

OverNext ==
    \/ \E u \in Users : ReceiveUser(u)
    \/ \E k \in 1..Len(attempts), which \in Fetches :
           \E response \in SmallResponses(which) : FetchResolved(k, which, response)
    \/ \E k \in 1..Len(attempts), which \in Fetches : FetchRejected(k, which)

StatNext ==
    \/ \E k \in 1..Len(attempts), which \in Fetches :
           \E response \in EnrolmentResponses(which) : FetchResolved(k, which, response)
    \/ \E k \in 1..Len(attempts), which \in Fetches : FetchRejected(k, which)

DayNext ==
    \/ \E k \in 1..Len(attempts), which \in Fetches :
           \E response \in AttendanceResponses(which) : FetchResolved(k, which, response)
    \/ \E k \in 1..Len(attempts), which \in Fetches : FetchRejected(k, which)
    \/ Tick

OverPageInit == OverInit /\ LocIdle /\ ThemeIdle
FetchingPageInit == FetchingInit /\ LocIdle /\ ThemeIdle

OverSpec == OverPageInit /\ [][OverNext]_vars
StatSpec == FetchingPageInit /\ [][StatNext]_vars
DaySpec == FetchingPageInit /\ [][DayNext]_vars

----------------------------------------------------------------------------
(* Properties of LocationManager, checked under Spec *)

\* call c leaves the set of calls in flight in this step
Settles(c) == c \in pending /\ \A d \in pending' : d.tid # c.tid
Resolves(c) == Settles(c) /\ last'.op = "resolved"
Rejects(c) == Settles(c) /\ last'.op = "rejected"
\* this step is a submit of the form
Submits == made' = made + 1 /\ last'.op = "submit"

\* C1: a submit with no editing id makes exactly one remote call, addLocation, with
\* Latitude and Longitude the numbers written in the two fields, and no updateLocation
\* call; when that call resolves, the answer is the first element of the list and the
\* elements the list had follow it, unchanged and in their order.
C1_Step ==
    /\ (Submits /\ editingLocationId = Null) =>
          \E c \in pending' :
              /\ pending' = pending \cup {c}
              /\ c \notin pending
              /\ c.fn = "addLocation"
              /\ c.data.Latitude = parseFloat(formData.Latitude)
              /\ c.data.Longitude = parseFloat(formData.Longitude)
    /\ \A c \in pending :
          (Resolves(c) /\ c.fn = "addLocation") =>
              /\ Len(locations') = Len(locations) + 1
              /\ locations'[1] = c.ret
              /\ \A i \in 1..Len(locations) : locations'[i + 1] = locations[i]
C1_AddPrepends == [][C1_Step]_vars

\* an add has resolved onto a list that already held two records
C1_Witness ==
    /\ last.op = "resolved"
    /\ last.id = Null
    /\ Len(locations) = 3
    /\ locations[1].id = "L3"
    /\ locations[1].Latitude = Num(7, 50)
    /\ locations[1].Longitude = Num(56, 78)

\* C2: handleEdit of a record of the list sets the editing id to the record's
\* identifier and the form fields to the record's Latitude and Longitude written as
\* strings (which parse back to the stored numbers); a submit while that editing id
\* is held makes exactly one remote call, updateLocation with that identifier, and no
\* addLocation call; when the call resolves the list keeps its length and order and
\* exactly the records with that identifier are replaced by the answer.
C2_Step ==
    /\ last'.op = "edit" =>
          \E i \in 1..Len(locations') :
              /\ locations'[i].id = last'.id
              /\ editingLocationId' = last'.id
              /\ formData'.Latitude = toString(locations'[i].Latitude)
              /\ formData'.Longitude = toString(locations'[i].Longitude)
              /\ parseFloat(formData'.Latitude) = locations'[i].Latitude
              /\ parseFloat(formData'.Longitude) = locations'[i].Longitude
    /\ (Submits /\ editingLocationId # Null) =>
          \E c \in pending' :
              /\ pending' = pending \cup {c}
              /\ c \notin pending
              /\ c.fn = "updateLocation"
              /\ c.id = editingLocationId
              /\ (last.op = "edit" => c.id = last.id)
    /\ \A c \in pending :
          (Resolves(c) /\ c.fn = "updateLocation") =>
              /\ Len(locations') = Len(locations)
              /\ \A i \in 1..Len(locations) :
                    locations'[i] = IF locations[i].id = c.id THEN c.ret ELSE locations[i]
C2_EditUpdates == [][C2_Step]_vars

\* the second record was edited to a new latitude and the update has resolved
C2_Witness ==
    /\ last.op = "resolved"
    /\ last.id = "L2"
    /\ Len(locations) = 2
    /\ locations[1] = LocA
    /\ locations[2] = [id |-> "L2", Latitude |-> Num(7, 50), Longitude |-> Num(56, 78)]

\* C3: when a delete call resolves, the list becomes the list it was without the
\* records that carry the identifier of the call, the others kept in order; a
\* declined confirmation makes no remote call and leaves the list unchanged.
C3_Step ==
    /\ \A c \in pending :
          (Resolves(c) /\ c.fn = "deleteLocation") =>
              locations' = SelectSeq(locations, LAMBDA loc : loc.id # c.id)
    /\ (last'.op = "declined" /\ last' # last) =>
          /\ pending' = pending
          /\ made' = made
          /\ locations' = locations
C3_DeleteRemoves == [][C3_Step]_vars

\* the second of two records was deleted and the first is what remains
C3_Witness ==
    /\ last.op = "resolved"
    /\ last.id = "L2"
    /\ locations = <<LocA>>
    /\ ~StoreHas("L2")

\* C4: after the initial load the list changes only in a step in which a call that
\* the store has answered resolves; a step that issues a call leaves the list as it
\* is, and a step in which a call is rejected leaves the list, the form, the editing
\* id, loading and error as they are.
C4_Step ==
    /\ (locations' # locations /\ fetchState.st # "pending") =>
          \E c \in pending : Resolves(c) /\ c.st = "applied"
    /\ made' # made => locations' = locations
    /\ \A c \in pending :
          Rejects(c) =>
              UNCHANGED <<locations, formData, editingLocationId, loading, error>>
C4_ListOnlyOnResolve == [][C4_Step]_vars

\* a delete was rejected while the record it named is still listed
C4_Witness ==
    /\ last.op = "rejected"
    /\ last.id = "L1"
    /\ pending = {}
    /\ editingLocationId = Null
    /\ locations = <<LocA, LocB>>

\* C9: while fetchLocations is pending, loading is true and nothing else has
\* happened; right after it resolves the list is the returned collection (empty when
\* the answer is null), error is null and loading is false; right after it is rejected
\* error is set, the list is empty and loading is false; loading is false once the
\* fetch has settled; and as long as loading is true or error is set no call has been
\* made and the form and editing id are untouched.
C9_MountLoad ==
    /\ fetchState.st = "pending" => loading /\ locations = <<>> /\ error = Null
    /\ last.op = "load-resolved" =>
          /\ locations = (IF fetchState.resp.isNull THEN <<>> ELSE fetchState.resp.items)
          /\ error = Null
          /\ ~loading
    /\ last.op = "load-rejected" => Truthy(error) /\ locations = <<>> /\ ~loading
    /\ fetchState.st # "pending" => ~loading
    /\ (loading \/ error # Null) =>
          /\ made = 0
          /\ pending = {}
          /\ formData = EmptyForm
          /\ editingLocationId = Null

\* the fetch was rejected
C9_Witness ==
    /\ last.op = "load-rejected"
    /\ fetchState.st = "rejected"
    /\ error = FetchError

----------------------------------------------------------------------------
(* Properties of AppearanceSettings, checked under ThemeSpec *)

\* C5: right after handleThemeChange, the displayed selection is the chosen option;
\* for "dark" the stored key is "dark" and the root flag is set, for "light" the key
\* is "light" and the flag is cleared, for "system" the key is absent and the flag
\* equals the system preference; whatever the key and the flag were before.
C5_ThemeChoice ==
    lastTheme.op = "select" =>
        /\ theme = lastTheme.arg
        /\ lastTheme.arg = "dark" => (lsTheme = "dark" /\ rootDark)
        /\ lastTheme.arg = "light" => (lsTheme = "light" /\ ~rootDark)
        /\ lastTheme.arg = "system" => (lsTheme = Null /\ rootDark = osDark)

\* "system" was chosen while "light" was stored and the system prefers dark
C5_Witness ==
    /\ lastTheme.op = "select"
    /\ lastTheme.arg = "system"
    /\ lastTheme.stored = "light"
    /\ ~lastTheme.dark
    /\ osDark
    /\ rootDark
    /\ lsTheme = Null

\* C6: while the component is mounted, a change of the system colour scheme leaves
\* the stored key as it is; with no key stored the root flag becomes the new system
\* preference, with a key stored the root flag stays as it is.
C6_Step ==
    (osDark' # osDark /\ mounted) =>
        /\ lsTheme' = lsTheme
        /\ lsTheme = Null => rootDark' = osDark'
        /\ lsTheme # Null => rootDark' = rootDark
C6_SchemeListener == [][C6_Step]_vars

\* the system turned dark while "light" was stored, and the flag stayed cleared
C6_Witness ==
    /\ lastTheme.op = "scheme"
    /\ lastTheme.listening
    /\ lsTheme = "light"
    /\ osDark
    /\ ~rootDark

----------------------------------------------------------------------------
(* Properties of Overview *)

\* the responses and the clock from which stats was computed
StatsStudents == ListOf(attempts[statsFrom].students.resp)
StatsCourses == ListOf(attempts[statsFrom].courses.resp)
StatsAttendance == ListOf(attempts[statsFrom].attendance.resp)
StatsTime == attempts[statsFrom].at

\* two instants of the same calendar day
SameDay(t1, t2) ==
    \E d \in 0..MaxTime :
        /\ d * DayLen <= t1 /\ t1 < (d + 1) * DayLen
        /\ d * DayLen <= t2 /\ t2 < (d + 1) * DayLen

\* C7 (DaySpec): in stats, today's present count is the number of attendance records
\* marked on the calendar day of the computation with Status 'Present', the absent
\* count the same with 'Absent', the total the number of records marked on that day;
\* records of another day count in none of them, and present + absent <= total.
C7_TodayCounts ==
    ~stats.isNull =>
        LET a == StatsAttendance
            Today(i) == SameDay(a[i].Marked_at, StatsTime)
            t == stats.todaysAttendance
        IN  /\ t.present = Cardinality({i \in 1..Len(a) : Today(i) /\ a[i].Status = "Present"})
            /\ t.absent = Cardinality({i \in 1..Len(a) : Today(i) /\ a[i].Status = "Absent"})
            /\ t.total = Cardinality({i \in 1..Len(a) : Today(i)})
            /\ t.present + t.absent <= t.total

\* present today, absent today, present yesterday: the counts are 1 and 1
C7_Witness ==
    /\ ~stats.isNull
    /\ StatsAttendance = <<[Status |-> "Present", Marked_at |-> DayLen],
                           [Status |-> "Absent", Marked_at |-> DayLen],
                           [Status |-> "Present", Marked_at |-> DayLen - 1]>>
    /\ StatsTime = DayLen
    /\ stats.todaysAttendance = [present |-> 1, absent |-> 1, total |-> 2]

\* C8 (OverSpec): an invocation of fetchStatistics is added only while a user is
\* present and starts with its three fetches pending; an invocation with a rejected
\* fetch has set the error flag, has ended in error and is not the one stats comes
\* from; the step that ends an invocation in error leaves stats as it is; and the step
\* that ends an invocation, either way, leaves loading false.
C8_Step ==
    /\ Len(attempts') # Len(attempts) =>
          /\ Truthy(user')
          /\ Len(attempts') = Len(attempts) + 1
          /\ \A f \in Fetches : attempts'[Len(attempts')][f].st = "pending"
    /\ \A k \in 1..Len(attempts') :
          (\E f \in Fetches : attempts'[k][f].st = "rejected") =>
              /\ ovError' # Null
              /\ attempts'[k].outcome = "error"
              /\ statsFrom' # k
    /\ \A k \in 1..Len(attempts) :
          (attempts[k].outcome = "pending" /\ attempts'[k].outcome # "pending") =>
              /\ ~ovLoading'
              /\ attempts'[k].outcome = "error" => (stats' = stats /\ statsFrom' = statsFrom)
C8_FetchFailure == [][C8_Step]_vars

\* the second invocation failed on attendance after students and courses had
\* resolved; stats is still that of the first invocation
C8_Witness ==
    /\ Len(attempts) = 2
    /\ statsFrom = 1
    /\ ~stats.isNull
    /\ attempts[2].students.st = "resolved"
    /\ attempts[2].courses.st = "resolved"
    /\ attempts[2].attendance.st = "rejected"
    /\ attempts[2].outcome = "error"
    /\ ovError = LoadError
    /\ ~ovLoading

RECURSIVE SumValues(_, _)
\* sum of the values of the first n entries of a distribution
SumValues(dist, n) == IF n = 0 THEN 0 ELSE SumValues(dist, n - 1) + dist[n].value

\* C10 (StatSpec): in stats, totalStudents and totalCourses are the lengths of the
\* fetched lists; the status distribution has one entry per distinct Status, valued
\* with the number of students of that Status, and its values sum to totalStudents;
\* the course distribution has an entry for every fetched course with students, valued
\* with the number of students whose Course is that course's identifier, no entry
\* valued 0 and no other entry.
C10_Distributions ==
    ~stats.isNull =>
        LET st == StatsStudents
            cs == StatsCourses
            sd == stats.statusDistribution
            cd == stats.courseDistribution
            WithStatus(x) == Cardinality({i \in 1..Len(st) : st[i].Status = x})
            Enrolled(k) == Cardinality({i \in 1..Len(st) : st[i].Course = cs[k].id})
        IN  /\ stats.totalStudents = Len(st)
            /\ stats.totalCourses = Len(cs)
            /\ \A i, j \in 1..Len(sd) : sd[i].name = sd[j].name => i = j
            /\ {sd[i].name : i \in 1..Len(sd)} = {st[i].Status : i \in 1..Len(st)}
            /\ \A i \in 1..Len(sd) : sd[i].value = WithStatus(sd[i].name)
            /\ SumValues(sd, Len(sd)) = stats.totalStudents
            /\ \A k \in 1..Len(cs) :
                  Enrolled(k) > 0 =>
                      \E i \in 1..Len(cd) :
                          cd[i].name = cs[k].Programme /\ cd[i].value = Enrolled(k)
            /\ \A i \in 1..Len(cd) : cd[i].value > 0
            /\ Len(cd) = Cardinality({k \in 1..Len(cs) : Enrolled(k) > 0})

\* two students of different Status in the first of two courses
C10_Witness ==
    /\ ~stats.isNull
    /\ StatsStudents = <<[Status |-> "Active", Course |-> "C1"],
                         [Status |-> "Inactive", Course |-> "C1"]>>
    /\ StatsCourses = <<CourseA, CourseB>>
    /\ stats.courseDistribution = <<[name |-> "ADCA", value |-> 2]>>
    /\ stats.statusDistribution = <<[name |-> "Active", value |-> 1],
                                    [name |-> "Inactive", value |-> 1]>>

----------------------------------------------------------------------------
(* LocationManager: calls in flight together *)

Records(list) == {list[i] : i \in 1..Len(list)}

\* C11: concurrently pending add/update/delete calls need no ordering: once
\* the list was loaded and every call made has settled, the local list holds
\* the same records with the same values as the remote store that carried out
\* the same calls, whatever the order in which the answers came back.
\* Stated for a network that loses no answer (ReliableSpec).
C11_SettledAgreesWithStore ==
    (fetchState.st = "resolved" /\ pending = {}) =>
        /\ Records(locations) = Records(remote)
        /\ Len(locations) = Len(remote)

----------------------------------------------------------------------------
(* LocationManager: the form after a submit settles *)

FromSubmit(c) == c.fn \in {"addLocation", "updateLocation"}

\* C12: the step in which a handleSubmit call is rejected leaves the form
\* fields and the editing id as it finds them, so when they are still those of
\* the submit, a new submit sends the same function, identifier and values;
\* the step in which the call resolves empties the form fields and sets the
\* editing id to null, and a submit made with a null editing id is a create.
C12_Step ==
    /\ \A c \in pending :
          (FromSubmit(c) /\ Rejects(c)) =>
              /\ formData' = formData
              /\ editingLocationId' = editingLocationId
              /\ (/\ editingLocationId = c.id
                  /\ Required(formData)
                  /\ LocationData(formData) = c.data) =>
                     /\ SubmitFunction(editingLocationId') = c.fn
                     /\ editingLocationId' = c.id
                     /\ LocationData(formData') = c.data
    /\ \A c \in pending :
          (FromSubmit(c) /\ Resolves(c)) =>
              /\ formData' = EmptyForm
              /\ editingLocationId' = Null
              /\ SubmitFunction(editingLocationId') = "addLocation"
    /\ Submits =>
          \E d \in pending' \ pending :
              /\ pending' = pending \cup {d}
              /\ d.fn = SubmitFunction(editingLocationId)
              /\ d.id = editingLocationId
              /\ d.data = LocationData(formData)
              /\ (editingLocationId = Null) => (d.fn = "addLocation")

C12_FormAfterSubmit == [][C12_Step]_vars

\* the only call made, an update of L1 with a retyped latitude, was rejected:
\* the form still holds the typed values and the editing id still names L1
C12_Witness ==
    /\ last = Event("rejected", "L1")
    /\ made = 1
    /\ pending = {}
    /\ editingLocationId = "L1"
    /\ formData = [Latitude |-> <<"7", ".", "5", "0">>,
                   Longitude |-> <<"5", "6", ".", "7", "8">>]
    /\ locations = <<LocA, LocB>>

----------------------------------------------------------------------------
(* LocationManager: deleting the record that is being edited *)

Listed(list, id) == \E i \in 1..Len(list) : list[i].id = id

\* a click on a row's delete button: the confirmation accepted or declined
DeleteClick ==
    \/ made' = made + 1 /\ last'.op = "delete"
    \/ last'.op = "declined" /\ pending' = pending

\* C13: handleDelete writes only the list: neither the click nor the settling
\* of its call changes the form fields or the editing id, also when the
\* record removed is the one being edited; after that resolve the editing id
\* names a record that is not in the list, a submit made then calls
\* updateLocation (not addLocation) with that identifier, and the resolve of
\* an update whose identifier is not in the list leaves the list as it is.
C13_Step ==
    /\ DeleteClick =>
          UNCHANGED <<locations, formData, editingLocationId, loading, error>>
    /\ \A c \in pending :
          (c.fn = "deleteLocation" /\ Settles(c)) =>
              /\ UNCHANGED <<formData, editingLocationId, loading, error>>
              /\ (Resolves(c) /\ editingLocationId = c.id) =>
                     /\ editingLocationId' = c.id
                     /\ ~Listed(locations', c.id)
    /\ (Submits /\ Truthy(editingLocationId)
                /\ ~Listed(locations, editingLocationId)) =>
          \E d \in pending' \ pending :
              /\ pending' = pending \cup {d}
              /\ d.fn = "updateLocation"
              /\ d.id = editingLocationId
    /\ \A c \in pending :
          (c.fn = "updateLocation" /\ Resolves(c) /\ ~Listed(locations, c.id)) =>
              locations' = locations

C13_DeleteFrame == [][C13_Step]_vars

\* L1 was being edited when its delete resolved: it is gone from the list and
\* from the store, the form still shows its coordinates, the editing id still
\* names it, and the submit that followed has sent an update of L1
C13_Witness ==
    /\ last = Event("submit", "L1")
    /\ made = 2
    /\ editingLocationId = "L1"
    /\ formData = EditForm(LocA)
    /\ locations = <<LocB>>
    /\ remote = <<LocB>>
    /\ pending = {NewCall(2, "updateLocation", "L1", LocationData(EditForm(LocA)))}

====
